---- MODULE Spec2Model ----
(***************************************************************************)
(* Model of the ai-api core: the Model Orchestrator                        *)
(* (services/orchestrator.py), the Task Store (services/queue.py) and the  *)
(* Worker (services/worker.py).                                            *)
(*                                                                         *)
(* Every coroutine is cut at its suspension points (awaits that reach the  *)
(* key-value store, the adapter or a held lock); the code between two      *)
(* suspension points runs as one action, as it does on the asyncio loop.   *)
(***************************************************************************)
EXTENDS Integers, Sequences, FiniteSets, TLC

(***************************************************************************)
(* Bounds of the model.                                                    *)
(***************************************************************************)
\* Largest instant the orchestrator's clock reaches.
MaxClock == 4
\* Number of requests made on the task store in a run: Create and Cancel calls
\* of clients, TTL expiries and deaths of the process (so at most MaxRequests
\* tasks exist).
MaxRequests == 3

(***************************************************************************)
(* ORCHESTRATOR                                                            *)
(***************************************************************************)
VARIABLES
    models,     \* ModelOrchestrator._models: model_id -> LoadedModel or NoModel
    regOrder,   \* insertion order of the keys of _models (a dict keeps it)
    status,     \* ModelOrchestrator._status: model_id -> status info
    lock,       \* ModelOrchestrator._lock: 0 when free, else the holding caller
    waitq,      \* the callers waiting for _lock, in arrival order
    opc,        \* per caller: where its coroutine is suspended
    oarg,       \* per caller: the locals of its coroutine
    clock,      \* datetime.now() as a counter: it moves on with every touch and
                \* every LoadedModel created (loaded_at and last_used of a new
                \* entry are read in the same instant)
    live        \* per model_id: adapter instances loaded and not yet unloaded

ovars == <<models, regOrder, status, lock, waitq, opc, oarg, clock, live>>

(***************************************************************************)
(* TASK STORE AND WORKER                                                   *)
(***************************************************************************)
VARIABLES
    task,       \* the hash at task:{id}: its fields, and whether it exists
    ttype,      \* the type each created task was created with ("none": not created)
    pending,    \* the list queue:pending
    processing, \* the set queue:processing
    counts,     \* worker._processing_counts
    wpc,        \* per task id: where its process_task coroutine is suspended
    hidx,       \* per task id: progress updates its handler has got through
    canc,       \* the cancel_task call in flight (pc, task id, status it read)
    nreq,       \* Create calls, Cancel calls and expiries so far
    cancelledPending, \* ids for which Cancel returned having found status Pending
    stamp,      \* per task id: updates["updated_at"] of its update_task in flight
    worker_running, \* worker._worker_running
    loop,       \* the worker_loop task: "off" never started, "new" created and
                \* not yet run, "poll" suspended inside its while loop, "done"
    sinceStop,  \* dequeues since stop_worker was called (-1: not called)
    history,    \* the list user:{uid}:tasks of one user
    cpc,        \* per task id: where a create_task with a user_id is suspended
    starts      \* per task id: how often process_task has called its handler

qvars == <<task, ttype, pending, processing, counts, wpc, hidx, canc, nreq,
           cancelledPending, stamp, worker_running, loop, sinceStop,
           history, cpc, starts>>

lvars == <<worker_running, loop, sinceStop>>

hvars == <<history, cpc>>

vars == <<models, regOrder, status, lock, waitq, opc, oarg, clock, live,
          task, ttype, pending, processing, counts, wpc, hidx, canc, nreq,
          cancelledPending, stamp, worker_running, loop, sinceStop,
          history, cpc, starts>>

\* The concurrent callers of the orchestrator: two coroutines.
Procs == {1, 2}

\* The identifiers of scenario 1 (spec section 8) and the type each is loaded as.
ModelIds == {"A", "B", "C"}
ModelTypeOf == [A |-> "llm", B |-> "image", C |-> "image"]
ModelTypes == {"llm", "image", "image2image", "video"}

\* Accelerator memory in units of 1000 MB (scenario 1: total 10,000 MB).
GPUTotal == [total_mb |-> 10]
\* What the adapter's estimator answers for each identifier.
EstimateMB == [A |-> 6, B |-> 3, C |-> 5]
\* What the adapter's loader reports as the cost of the loaded instance: the
\* estimator's answer again (loaders return the table estimate).
MemoryMB == [A |-> 6, B |-> 3, C |-> 5]
\* What the driver counts for a live instance. The loaders measure nothing, so
\* it need not be the estimate: C (an image pipeline, loaded with CPU offload)
\* occupies less than the table says.
FootprintMB == [A |-> 6, B |-> 3, C |-> 4]

NoModel == [model_type |-> "none", memory_mb |-> 0, loaded_at |-> 0, last_used |-> 0]
NoArg == [m |-> "A", force |-> FALSE, ctx |-> "none", target |-> "A", cands |-> <<>>,
          direct |-> FALSE, est |-> TRUE, prev |-> 0]

Resident(mdl) == {m \in ModelIds : mdl[m] # NoModel}

StatusInfo(st, err) == [status |-> st, error |-> err]

RECURSIVE SumMem(_, _)
SumMem(S, lv) ==
    IF S = {} THEN 0
    ELSE LET m == CHOOSE x \in S : TRUE
         IN FootprintMB[m] * lv[m] + SumMem(S \ {m}, lv)

\* get_gpu_status().free_mb: what the driver reports, every live instance counted.
FreeMB(lv) == GPUTotal.total_mb - SumMem(ModelIds, lv)

\* sorted(..., key=last_used): a stable insertion sort of a sequence of ids.
RECURSIVE InsertByKey(_, _, _)
InsertByKey(x, s, mdl) ==
    IF s = <<>> THEN <<x>>
    ELSE IF mdl[x].last_used < mdl[Head(s)].last_used
         THEN <<x>> \o s
         ELSE <<Head(s)>> \o InsertByKey(x, Tail(s), mdl)

RECURSIVE SortAsc(_, _)
SortAsc(s, mdl) ==
    IF s = <<>> THEN <<>>
    ELSE InsertByKey(s[Len(s)], SortAsc(SubSeq(s, 1, Len(s) - 1), mdl), mdl)

\* The same walk with the comparison turned round: most recently used first.
RECURSIVE InsertByKeyDesc(_, _, _)
InsertByKeyDesc(x, s, mdl) ==
    IF s = <<>> THEN <<x>>
    ELSE IF mdl[x].last_used > mdl[Head(s)].last_used
         THEN <<x>> \o s
         ELSE <<Head(s)>> \o InsertByKeyDesc(x, Tail(s), mdl)

RECURSIVE SortDesc(_, _)
SortDesc(s, mdl) ==
    IF s = <<>> THEN <<>>
    ELSE InsertByKeyDesc(s[Len(s)], SortDesc(SubSeq(s, 1, Len(s) - 1), mdl), mdl)

CandidatesMRU(order, mdl, exclude) ==
    LET keep(x) == x # exclude
    IN SortDesc(SelectSeq(order, keep), mdl)

\* The candidates without the filter on exclude_model_id.
CandidatesAll(order, mdl, exclude) == SortAsc(order, mdl)

\* ensure_memory_available: the eviction candidates, least recently used first.
Candidates(order, mdl, exclude) ==
    LET keep(x) == x # exclude
    IN SortAsc(SelectSeq(order, keep), mdl)

RemoveId(order, m) ==
    LET keep(x) == x # m
    IN SelectSeq(order, keep)

\* LoadedModel.touch()
Touched(mdl, m, now) == [mdl EXCEPT ![m].last_used = now]

OInit ==
    /\ models = [m \in ModelIds |-> NoModel]
    /\ regOrder = <<>>
    /\ status = [m \in ModelIds |-> StatusInfo("none", FALSE)]
    /\ lock = 0
    /\ waitq = <<>>
    /\ opc = [p \in Procs |-> "idle"]
    /\ oarg = [p \in Procs |-> NoArg]
    /\ clock = 1
    /\ live = [m \in ModelIds |-> 0]

(***************************************************************************)
(* Read accessors: no lock, no suspension.                                 *)
(***************************************************************************)
\* get(model_id): touches the entry when it is resident.
Get(m) ==
    /\ m \in Resident(models)
    /\ clock <= MaxClock
    /\ models' = Touched(models, m, clock)
    /\ clock' = clock + 1
    /\ UNCHANGED <<regOrder, status, lock, waitq, opc, oarg, live>>
    /\ UNCHANGED qvars

\* get_by_type(model_type): the first entry of that type in dict order.
GetByType(t) ==
    LET keep(x) == models[x].model_type = t
        hits == SelectSeq(regOrder, keep)
    IN /\ hits # <<>>
       /\ clock <= MaxClock
       /\ models' = Touched(models, Head(hits), clock)
       /\ clock' = clock + 1
       /\ UNCHANGED <<regOrder, status, lock, waitq, opc, oarg, live>>
       /\ UNCHANGED qvars

(***************************************************************************)
(* load / unload / ensure_loaded / ensure_memory_available.                *)
(*                                                                         *)
(* The code a coroutine runs between two suspensions is a function from    *)
(* the orchestrator's state to an outcome: the state it leaves, where the  *)
(* coroutine is suspended next, its locals, and whether it has joined the  *)
(* waiters of the lock.  asyncio.Lock is not reentrant and serves its      *)
(* waiters in arrival order; acquire() does not suspend when the lock is   *)
(* free and nobody waits.                                                  *)
(***************************************************************************)
\* The orchestrator's state as a coroutine finds it.
Cur == [models |-> models, regOrder |-> regOrder, status |-> status,
        lock |-> lock, clock |-> clock, live |-> live]

\* exc: the call has ended by raising.
Outcome(st, pc, arg, wait) ==
    [st |-> st, pc |-> pc, arg |-> arg, wait |-> wait, exc |-> FALSE]

Returned(st) == Outcome(st, "idle", NoArg, FALSE)

Raised(st) == [Returned(st) EXCEPT !.exc = TRUE]

\* The eviction loop of ensure_memory_available from the test at the top of
\* an iteration to the next suspension: enough memory or no candidate left
\* ends the walk (load() goes on to the adapter's loader, a direct caller
\* gets its answer); otherwise unload(candidate) is called, which takes the
\* lock at once (alone: nobody holds it, nobody waits) or joins the waiters.
\* _unload_internal from the lock taken to the adapter's unloader: an id that
\* is not resident returns 0, and an eviction walk goes on.
RECURSIVE EvictLoop(_, _, _, _, _)
RECURSIVE UnloadBody(_, _, _, _)
EvictLoop(p, arg, cands, st, alone) ==
    IF FreeMB(st.live) >= EstimateMB[arg.m] \/ cands = <<>>
    THEN IF arg.direct
         THEN Returned(st)
         ELSE Outcome(st, "load_adapter",
                      [arg EXCEPT !.ctx = "load", !.target = arg.m, !.cands = <<>>],
                      FALSE)
    ELSE LET a2 == [arg EXCEPT !.ctx = "evict", !.target = Head(cands),
                               !.cands = Tail(cands)]
         IN IF st.lock = 0 /\ alone
            THEN UnloadBody(p, a2, st, alone)
            ELSE Outcome(st, "wait_lock", a2, TRUE)

\* An unload that writes NotLoaded for an id it did not find.
UnloadBodyMarksMissing(p, arg, st, alone) ==
    IF arg.target \in Resident(st.models)
    THEN Outcome([st EXCEPT !.lock = p,
                            !.status[arg.target] = StatusInfo("unloading", FALSE)],
                 "unl_adapter", arg, FALSE)
    ELSE Returned([st EXCEPT !.status[arg.target] = StatusInfo("not_loaded", FALSE)])

UnloadBody(p, arg, st, alone) ==
    IF arg.target \in Resident(st.models)
    THEN Outcome([st EXCEPT !.lock = p,
                            !.status[arg.target] = StatusInfo("unloading", FALSE)],
                 "unl_adapter", arg, FALSE)
    ELSE IF arg.ctx = "evict"
         THEN EvictLoop(p, arg, arg.cands, st, alone)
         ELSE Returned(st)

\* load() from "Update status" to its next suspension, the lock held: status
\* Loading, the estimate, ensure_memory_available.
\* A load whose early failure leaves the status at Loading.
BeginLoadLeavesLoading(p, arg, st) ==
    LET st2 == [st EXCEPT !.status[arg.m] = StatusInfo("loading", FALSE)]
    IN IF ~arg.est
       THEN Raised([st2 EXCEPT !.lock = 0])
       ELSE EvictLoop(p, arg, Candidates(st.regOrder, st.models, arg.m), st2, FALSE)

\* arg.est: whether _estimate_memory and the memory probe answer; when one of
\* them raises, the except clause of load() records Error and raises on.
\* (The answer is drawn when load() gets there: a suspended call carries
\* est = TRUE.)
BeginLoad(p, arg, st) ==
    LET st2 == [st EXCEPT !.status[arg.m] = StatusInfo("loading", FALSE)]
    IN IF ~arg.est
       THEN Raised([st2 EXCEPT !.status[arg.m] = StatusInfo("error", TRUE),
                               !.lock = 0])
       ELSE EvictLoop(p, arg, Candidates(st.regOrder, st.models, arg.m), st2, FALSE)

\* The test dropped: every load goes on to the adapter.
AlreadyLoadedIgnored(mdl, m, force) == FALSE

\* load(): "if model_id in self._models and not force"
AlreadyLoaded(mdl, m, force) == m \in Resident(mdl) /\ ~force

\* A forced load that leaves the resident instance where it is.
LoadBodyForceKeepsOld(p, arg, st) ==
    IF AlreadyLoaded(st.models, arg.m, arg.force)
    THEN Returned([st EXCEPT !.models = Touched(st.models, arg.m, st.clock),
                             !.clock = st.clock + 1])
    ELSE BeginLoad(p, [arg EXCEPT !.prev = st.models[arg.m].loaded_at],
                   [st EXCEPT !.lock = p])

\* A load that writes Loaded again for an id it finds resident.
LoadBodyRewritesStatus(p, arg, st) ==
    IF AlreadyLoaded(st.models, arg.m, arg.force)
    THEN Returned([st EXCEPT !.models = Touched(st.models, arg.m, st.clock),
                             !.status[arg.m] = StatusInfo("loaded", FALSE),
                             !.clock = st.clock + 1])
    ELSE IF arg.m \in Resident(st.models) /\ arg.force
    THEN Outcome([st EXCEPT !.lock = p,
                            !.status[arg.m] = StatusInfo("unloading", FALSE)],
                 "unl_adapter",
                 [arg EXCEPT !.ctx = "force", !.target = arg.m, !.est = TRUE,
                             !.prev = st.models[arg.m].loaded_at], FALSE)
    ELSE BeginLoad(p, arg, [st EXCEPT !.lock = p])

\* load() from the lock taken to its next suspension. (arg.prev remembers the
\* loaded_at of the entry a forced load replaces.)
LoadBody(p, arg, st) ==
    IF AlreadyLoaded(st.models, arg.m, arg.force)
    THEN \* already loaded: touch, return, the lock is released
         Returned([st EXCEPT !.models = Touched(st.models, arg.m, st.clock),
                             !.clock = st.clock + 1])
    ELSE IF arg.m \in Resident(st.models) /\ arg.force
    THEN \* force: _unload_internal(model_id) up to the adapter's unloader
         Outcome([st EXCEPT !.lock = p,
                            !.status[arg.m] = StatusInfo("unloading", FALSE)],
                 "unl_adapter",
                 [arg EXCEPT !.ctx = "force", !.target = arg.m, !.est = TRUE,
                             !.prev = st.models[arg.m].loaded_at], FALSE)
    ELSE BeginLoad(p, arg, [st EXCEPT !.lock = p])

\* An unload whose failure is recorded as NotLoaded.
UnloadDoneFailureAsNotLoaded(p, arg, st, ok, alone) ==
    LET t == arg.target
        gone == [st EXCEPT !.models[t] = NoModel,
                           !.regOrder = RemoveId(st.regOrder, t),
                           !.live[t] = st.live[t] - 1,
                           !.status[t] = StatusInfo("not_loaded", FALSE)]
        failed == [st EXCEPT !.status[t] = StatusInfo("not_loaded", FALSE), !.lock = 0]
    IN IF ok
       THEN IF arg.ctx = "force"
            THEN BeginLoad(p, arg, gone)
            ELSE IF arg.ctx = "evict"
            THEN EvictLoop(p, arg, arg.cands, [gone EXCEPT !.lock = 0], alone)
            ELSE Returned([gone EXCEPT !.lock = 0])
       ELSE IF arg.ctx = "evict" /\ ~arg.direct
            THEN Raised([failed EXCEPT !.status[arg.m] = StatusInfo("error", TRUE)])
            ELSE Raised(failed)

\* _unload_internal once the adapter's unloader has returned (ok) or raised.
UnloadDone(p, arg, st, ok, alone) ==
    LET t == arg.target
        gone == [st EXCEPT !.models[t] = NoModel,
                           !.regOrder = RemoveId(st.regOrder, t),
                           !.live[t] = st.live[t] - 1,
                           !.status[t] = StatusInfo("not_loaded", FALSE)]
        failed == [st EXCEPT !.status[t] = StatusInfo("error", TRUE), !.lock = 0]
    IN IF ok
       THEN IF arg.ctx = "force"
            THEN \* back in load(): go on to load the model again
                 BeginLoad(p, arg, gone)
            ELSE IF arg.ctx = "evict"
            THEN \* unload() returns, the lock is released; the walk samples
                 \* the memory again and goes on
                 EvictLoop(p, arg, arg.cands, [gone EXCEPT !.lock = 0], alone)
            ELSE Returned([gone EXCEPT !.lock = 0])
       ELSE \* the unloader raised: status Error, and the exception leaves
            \* unload() and ensure_memory_available; in load() it either
            \* precedes the try (force) or is caught by it (eviction), which
            \* records Error for the model being loaded
            IF arg.ctx = "evict" /\ ~arg.direct
            THEN Raised([failed EXCEPT !.status[arg.m] = StatusInfo("error", TRUE)])
            ELSE Raised(failed)

\* The registry after `self._models[model_id] = loaded_model`.
StoreLoaded(mdl, m, rec) == [mdl EXCEPT ![m] = rec]

\* load() once the adapter's loader has returned (ok) or raised.
LoadDone(p, arg, st, ok) ==
    LET m == arg.m
        rec == [model_type |-> ModelTypeOf[m], memory_mb |-> MemoryMB[m],
                loaded_at |-> st.clock, last_used |-> st.clock]
    IN IF ok
       THEN Returned([st EXCEPT
                        !.models = StoreLoaded(st.models, m, rec),
                        !.regOrder = IF m \in Resident(st.models) THEN st.regOrder
                                     ELSE Append(st.regOrder, m),
                        !.live[m] = st.live[m] + 1,
                        !.status[m] = StatusInfo("loaded", FALSE),
                        !.clock = st.clock + 1,
                        !.lock = 0])
       ELSE Raised([st EXCEPT !.status[m] = StatusInfo("error", TRUE), !.lock = 0])

\* Caller p runs up to its next suspension with outcome out; q is the waiters
\* it leaves behind.
Apply(p, out, q) ==
    /\ out.st.clock <= MaxClock + 1
    /\ models' = out.st.models
    /\ regOrder' = out.st.regOrder
    /\ status' = out.st.status
    /\ lock' = out.st.lock
    /\ clock' = out.st.clock
    /\ live' = out.st.live
    /\ opc' = [opc EXCEPT ![p] = out.pc]
    /\ oarg' = [oarg EXCEPT ![p] = out.arg]
    /\ waitq' = IF out.wait THEN Append(q, p) ELSE q
    /\ UNCHANGED qvars

\* A call that goes on without looking at the lock.
AcquireNoWait(p, arg, body) == Apply(p, body, waitq)

\* `async with self._lock` of a new call: asyncio.Lock.acquire().
Acquire(p, arg, body) ==
    IF lock = 0 /\ waitq = <<>>
    THEN Apply(p, body, waitq)
    ELSE Apply(p, Outcome(Cur, "wait_lock", [arg EXCEPT !.est = TRUE], TRUE), waitq)

\* A caller starts load(model_id, model_type, force).
CallLoad(p, m, force, est) ==
    LET arg == [m |-> m, force |-> force, ctx |-> "load", target |-> m,
                cands |-> <<>>, direct |-> FALSE, est |-> est, prev |-> 0]
    IN /\ opc[p] = "idle"
       /\ Acquire(p, arg, LoadBody(p, arg, Cur))

\* ensure_loaded(model_id, model_type): touch a resident entry, else load().
EnsureLoaded(p, m, est) ==
    LET arg == [m |-> m, force |-> FALSE, ctx |-> "load", target |-> m,
                cands |-> <<>>, direct |-> FALSE, est |-> est, prev |-> 0]
    IN /\ opc[p] = "idle"
       /\ IF m \in Resident(models)
          THEN Apply(p, Returned([Cur EXCEPT !.models = Touched(models, m, clock),
                                             !.clock = clock + 1]), waitq)
          ELSE Acquire(p, arg, LoadBody(p, arg, Cur))

\* A caller starts unload(model_id).
CallUnload(p, m) ==
    LET arg == [m |-> m, force |-> FALSE, ctx |-> "unload", target |-> m,
                cands |-> <<>>, direct |-> FALSE, est |-> TRUE, prev |-> 0]
    IN /\ opc[p] = "idle"
       /\ Acquire(p, arg, UnloadBody(p, arg, Cur, TRUE))

\* A caller starts ensure_memory_available(estimate(m), exclude_model_id=m)
\* on its own, outside load(): the lock is not held.
CallEnsureMemory(p, m) ==
    LET arg == [m |-> m, force |-> FALSE, ctx |-> "evict", target |-> m,
                cands |-> <<>>, direct |-> TRUE, est |-> TRUE, prev |-> 0]
    IN /\ opc[p] = "idle"
       /\ Apply(p, EvictLoop(p, arg, Candidates(regOrder, models, m), Cur,
                             waitq = <<>>), waitq)

\* A waiter that made its test before it waited: with the lock it goes on to
\* load whatever the registry holds by now.
LoadEnterSkipsTest(p, est) ==
    /\ opc[p] = "wait_lock"
    /\ oarg[p].ctx = "load"
    /\ lock = 0
    /\ waitq # <<>>
    /\ Head(waitq) = p
    /\ Apply(p, BeginLoad(p, [oarg[p] EXCEPT !.est = est], [Cur EXCEPT !.lock = p]),
             Tail(waitq))

\* The first waiter of a free lock takes it: load() goes on.
LoadEnter(p, est) ==
    /\ opc[p] = "wait_lock"
    /\ oarg[p].ctx = "load"
    /\ lock = 0
    /\ waitq # <<>>
    /\ Head(waitq) = p
    /\ Apply(p, LoadBody(p, [oarg[p] EXCEPT !.est = est], Cur), Tail(waitq))

\* The first waiter of a free lock takes it: unload() goes on, called by a
\* client (ctx "unload") or by the eviction loop (ctx "evict").
UnloadEnter(p) ==
    /\ opc[p] = "wait_lock"
    /\ oarg[p].ctx \in {"unload", "evict"}
    /\ lock = 0
    /\ waitq # <<>>
    /\ Head(waitq) = p
    /\ Apply(p, UnloadBody(p, oarg[p], Cur, Tail(waitq) = <<>>), Tail(waitq))

\* The adapter's unloader returns (ok) or raises (~ok) inside _unload_internal;
\* a forced load then goes on to its estimate (est).
UnloadAdapterDone(p, ok, est) ==
    LET arg == [oarg[p] EXCEPT !.est = est \/ oarg[p].ctx # "force"]
    IN /\ opc[p] = "unl_adapter"
       /\ lock = p
       /\ Apply(p, UnloadDone(p, arg, Cur, ok, waitq = <<>>), waitq)

\* The adapter's loader returns (ok) or raises (~ok) inside load().
LoadAdapterDone(p, ok) ==
    /\ opc[p] = "load_adapter"
    /\ lock = p
    /\ Apply(p, LoadDone(p, oarg[p], Cur, ok), waitq)

\* The steps the event loop runs for a suspended orchestrator call.
OrchStep(p) ==
    \/ \E est \in BOOLEAN : LoadEnter(p, est)
    \/ UnloadEnter(p)
    \/ \E ok, est \in BOOLEAN : UnloadAdapterDone(p, ok, est)
    \/ \E ok \in BOOLEAN : LoadAdapterDone(p, ok)

OrchNext ==
    \/ \E m \in ModelIds : Get(m)
    \/ \E t \in ModelTypes : GetByType(t)
    \/ \E p \in Procs, m \in ModelIds, force, est \in BOOLEAN : CallLoad(p, m, force, est)
    \/ \E p \in Procs, m \in ModelIds, est \in BOOLEAN : EnsureLoaded(p, m, est)
    \/ \E p \in Procs, m \in ModelIds : CallUnload(p, m)
    \/ \E p \in Procs, m \in ModelIds : CallEnsureMemory(p, m)
    \/ \E p \in Procs : OrchStep(p)

(***************************************************************************)
(* TASK STORE (services/queue.py)                                          *)
(***************************************************************************)
TaskIds == 1..MaxRequests
TaskTypes == {"video", "image", "image2image", "llm_compare"}

CONCURRENCY_LIMITS == [video |-> 1, image |-> 2, image2image |-> 2, llm_compare |-> 1]

Terminal == {"completed", "failed", "cancelled"}

\* A key that holds no hash: never written, or removed when its TTL ran out.
\* hash: "none" never created, "full" written by create_task (carries the TTL),
\* "gone" expired, "partial" created by an hset on a missing key (no TTL, only
\* the fields of that update).
NoRecord(h) == [hash |-> h, status |-> "none", progress |-> 0,
                result |-> FALSE, error |-> FALSE, updated_at |-> 0]

\* What update_task leaves alone in a field it was not given.
Keep == [status |-> "keep", progress |-> -1, result |-> FALSE, error |-> FALSE,
         updated_at |-> 0]

\* get_task: None for a missing key, a Task for a complete hash; a hash that
\* lacks the fields _deserialize_task indexes raises KeyError.
GetTaskMissingAsFound(rec) ==
    IF rec.hash = "partial" THEN "raise" ELSE "task"

GetTask(rec) ==
    IF rec.hash \in {"none", "gone"} THEN "None"
    ELSE IF rec.hash = "partial" THEN "raise"
    ELSE "task"

\* A write that puts back a status with every update: Processing when the
\* caller gave none.
HSetWritesStatus(rec, u) ==
    LET base == IF rec.hash \in {"none", "gone"} THEN NoRecord("partial") ELSE rec
    IN [base EXCEPT
          !.status = IF u.status = "keep" THEN "processing" ELSE u.status,
          !.progress = IF u.progress = -1 THEN @ ELSE u.progress,
          !.result = @ \/ u.result,
          !.error = @ \/ u.error,
          !.updated_at = u.updated_at]

\* r.hset(task_key, mapping=updates): sets the given fields, creating the key
\* (without a TTL) when it does not exist.
HSet(rec, u) ==
    LET base == IF rec.hash \in {"none", "gone"} THEN NoRecord("partial") ELSE rec
    IN [base EXCEPT
          !.status = IF u.status = "keep" THEN @ ELSE u.status,
          !.progress = IF u.progress = -1 THEN @ ELSE u.progress,
          !.result = @ \/ u.result,
          !.error = @ \/ u.error,
          !.updated_at = u.updated_at]

\* The sadd / srem of update_task for the status it is given.
SetOp(procset, id, st) ==
    IF st = "processing" THEN procset \cup {id}
    ELSE IF st \in Terminal THEN procset \ {id}
    ELSE procset

\* r.lrem(PENDING_QUEUE_KEY, 0, task_id): every occurrence of the id.
LRem(q, id) ==
    LET keep(x) == x # id
    IN SelectSeq(q, keep)

InQueue(q, id) == \E i \in 1..Len(q) : q[i] = id

\* datetime.now(timezone.utc) as a counter per task: a reading is later than
\* every updated_at of the task that is stored or held by a call in flight.
Later(a, b) == IF a >= b THEN a ELSE b

Now(t) ==
    1 + Later(task[t].updated_at,
              Later(stamp[t], IF canc.t = t THEN canc.stamp ELSE 0))

\* create_task: the hash (status pending, progress 0), its TTL, and the rpush.
\* The id is fresh and unknown to every other caller until create_task returns.
\* With a user_id (user) the call goes on to the lpush on the user's history.
CreateTaskBy(T, user) ==
    /\ \E t \in TaskIds :
          /\ ttype[t] = "none"
          /\ \A u \in TaskIds : u < t => ttype[u] # "none"
          /\ ttype' = [ttype EXCEPT ![t] = T]
          /\ task' = [task EXCEPT ![t] = [NoRecord("full") EXCEPT !.status = "pending",
                                                             !.updated_at = Now(t)]]
          /\ pending' = Append(pending, t)
          /\ cpc' = [cpc EXCEPT ![t] = IF user THEN "lpush" ELSE "none"]
    /\ nreq < MaxRequests
    /\ nreq' = nreq + 1
    /\ UNCHANGED <<processing, counts, wpc, hidx, canc, cancelledPending, stamp>>
    /\ UNCHANGED history
    /\ UNCHANGED <<ovars, lvars, starts>>

\* create_task without a user_id.
CreateTask(T) == CreateTaskBy(T, FALSE)

\* create_task with a user_id.
CreateTaskForUser(T) == CreateTaskBy(T, TRUE)

\* The cap of the history list (MAX_USER_TASKS_HISTORY, 100 in the code).
MaxHistory == 2

\* r.ltrim(user_key, 0, MAX_USER_TASKS_HISTORY - 1)
LTrim(h, cap) == IF Len(h) <= cap THEN h ELSE SubSeq(h, 1, cap)

\* create_task: r.lpush(user_key, task_id), then r.ltrim(...), then
\* r.expire(user_key, ...) after which the call returns.
HistoryStep(t) ==
    /\ cpc[t] \in {"lpush", "ltrim", "expire"}
    /\ history' = IF cpc[t] = "lpush" THEN <<t>> \o history
                  ELSE IF cpc[t] = "ltrim" THEN LTrim(history, MaxHistory)
                  ELSE history
    /\ cpc' = [cpc EXCEPT ![t] = IF cpc[t] = "lpush" THEN "ltrim"
                                   ELSE IF cpc[t] = "ltrim" THEN "expire"
                                   ELSE "done"]
    /\ UNCHANGED <<task, ttype, pending, processing, counts, wpc, hidx, canc,
                   nreq, cancelledPending, stamp>>
    /\ UNCHANGED <<ovars, lvars, starts>>

\* The store drops a task hash whose TTL has run out.
Expire(t) ==
    /\ task[t].hash = "full"
    /\ nreq < MaxRequests
    /\ nreq' = nreq + 1
    /\ task' = [task EXCEPT ![t] = NoRecord("gone")]
    /\ UNCHANGED <<ttype, pending, processing, counts, wpc, hidx, canc,
                   cancelledPending, stamp>>
    /\ UNCHANGED <<ovars, lvars, hvars, starts>>

(***************************************************************************)
(* cancel_task                                                             *)
(***************************************************************************)
NoCancel == [pc |-> "idle", t |-> 0, saw |-> "none", stamp |-> 0]

\* A test that lets a Cancel through on a failed or cancelled task.
AlreadyTerminalCompletedOnly(rec) == rec.status = "completed"

\* cancel_task: "task.status in (COMPLETED, FAILED, CANCELLED)".
AlreadyTerminal(rec) == rec.status \in Terminal

\* cancel_task up to its lrem: reads the record, returns None on a missing
\* one and the task as it is on a terminal status (saw keeps the status of
\* the task it returned).
CancelCall(t) ==
    /\ canc.pc = "idle"
    /\ nreq < MaxRequests
    /\ ttype[t] # "none"
    /\ nreq' = nreq + 1
    /\ canc' = IF GetTask(task[t]) # "task" THEN NoCancel
               ELSE IF AlreadyTerminal(task[t])
               THEN [NoCancel EXCEPT !.saw = task[t].status]
               ELSE [pc |-> "lrem", t |-> t, saw |-> task[t].status, stamp |-> 0]
    /\ UNCHANGED <<task, ttype, pending, processing, counts, wpc, hidx,
                   cancelledPending, stamp>>
    /\ UNCHANGED <<ovars, lvars, hvars, starts>>

\* The lrem of cancel_task.
CancelLRem ==
    /\ canc.pc = "lrem"
    /\ pending' = LRem(pending, canc.t)
    /\ canc' = [canc EXCEPT !.pc = "get"]
    /\ UNCHANGED <<task, ttype, processing, counts, wpc, hidx, nreq,
                   cancelledPending, stamp>>
    /\ UNCHANGED <<ovars, lvars, hvars, starts>>

\* update_task(status=CANCELLED): its get_task, and the updated_at it takes
\* from the clock once the record is found.
CancelGet ==
    /\ canc.pc = "get"
    /\ canc' = IF GetTask(task[canc.t]) = "task"
               THEN [canc EXCEPT !.pc = "set", !.stamp = Now(canc.t)]
               ELSE NoCancel
    /\ UNCHANGED <<task, ttype, pending, processing, counts, wpc, hidx, nreq,
                   cancelledPending, stamp>>
    /\ UNCHANGED <<ovars, lvars, hvars, starts>>

\* update_task(status=CANCELLED): its srem.
CancelSRem ==
    /\ canc.pc = "set"
    /\ processing' = SetOp(processing, canc.t, "cancelled")
    /\ canc' = [canc EXCEPT !.pc = "hset"]
    /\ UNCHANGED <<task, ttype, pending, counts, wpc, hidx, nreq,
                   cancelledPending, stamp>>
    /\ UNCHANGED <<ovars, lvars, hvars, starts>>

\* A cancel that stops the process_task of its task and gives the slot back.
CancelHSetReleasesSlot ==
    LET held == wpc[canc.t] \notin {"none", "get", "requeue"}
    IN /\ canc.pc = "hset"
       /\ task' = [task EXCEPT ![canc.t] = HSet(@, [Keep EXCEPT !.status = "cancelled",
                                                            !.updated_at = canc.stamp])]
       /\ cancelledPending' = IF canc.saw = "pending"
                              THEN cancelledPending \cup {canc.t}
                              ELSE cancelledPending
       /\ canc' = NoCancel
       /\ wpc' = [wpc EXCEPT ![canc.t] = IF held THEN "none" ELSE @]
       /\ counts' = IF held THEN [counts EXCEPT ![ttype[canc.t]] = @ - 1] ELSE counts
       /\ UNCHANGED <<ttype, pending, processing, hidx, nreq, stamp>>
       /\ UNCHANGED <<ovars, lvars, hvars, starts>>

\* update_task(status=CANCELLED): its hset; cancel_task returns the task.
CancelHSet ==
    /\ canc.pc = "hset"
    /\ task' = [task EXCEPT ![canc.t] = HSet(@, [Keep EXCEPT !.status = "cancelled",
                                                         !.updated_at = canc.stamp])]
    /\ cancelledPending' = IF canc.saw = "pending"
                           THEN cancelledPending \cup {canc.t}
                           ELSE cancelledPending
    /\ canc' = NoCancel
    /\ UNCHANGED <<ttype, pending, processing, counts, wpc, hidx, nreq, stamp>>
    /\ UNCHANGED <<ovars, lvars, hvars, starts>>

(***************************************************************************)
(* WORKER (services/worker.py)                                             *)
(***************************************************************************)
\* The models an llm_compare task names (params["models"]).
CompareModels == <<"m1", "m2">>

RECURSIVE CompareProgress(_)
CompareProgress(k) ==
    IF k = 0 THEN <<>>
    ELSE Append(CompareProgress(k - 1), (k * 100) \div Len(CompareModels))

\* The progress values each handler hands to update_task, in order.
ProgressPlan ==
    [video |-> <<10, 20, 80, 90>>,
     image |-> <<>>,
     image2image |-> <<>>,
     llm_compare |-> CompareProgress(Len(CompareModels))]

\* A cap shared by all types: full as soon as any type is.
SaturatedAnyType(cnt, T) ==
    \E U \in TaskTypes : cnt[U] >= CONCURRENCY_LIMITS[U]

\* The test with the comparison off by one.
SaturatedOffByOne(cnt, T) == cnt[T] > CONCURRENCY_LIMITS[T]

\* process_task: "_processing_counts[task_type] >= CONCURRENCY_LIMITS[task_type]"
Saturated(cnt, T) == cnt[T] >= CONCURRENCY_LIMITS[T]

\* The phases of process_task that call update_task: "P" the transition to
\* PROCESSING, "G" a progress report of the handler, "C" the completion write,
\* "F" the failure write of the except clause.
\* A completion write that leaves the progress where the handler put it.
UpdatesCompletedKeepsProgress(ph, t) ==
    IF ph = "P" THEN [Keep EXCEPT !.status = "processing"]
    ELSE IF ph = "G" THEN [Keep EXCEPT !.progress = ProgressPlan[ttype[t]][hidx[t] + 1]]
    ELSE IF ph = "C" THEN [Keep EXCEPT !.status = "completed", !.result = TRUE]
    ELSE [Keep EXCEPT !.status = "failed", !.error = TRUE]

Updates(ph, t) ==
    IF ph = "P" THEN [Keep EXCEPT !.status = "processing"]
    ELSE IF ph = "G" THEN [Keep EXCEPT !.progress = ProgressPlan[ttype[t]][hidx[t] + 1]]
    ELSE IF ph = "C" THEN [Keep EXCEPT !.status = "completed", !.progress = 100,
                                       !.result = TRUE]
    ELSE [Keep EXCEPT !.status = "failed", !.error = TRUE]

Phase(pc) ==
    IF pc \in {"P_get", "P_set", "P_hset"} THEN "P"
    ELSE IF pc = "G_hset" THEN "G"
    ELSE IF pc \in {"C_set", "C_hset"} THEN "C"
    ELSE "F"

\* A failure write that raises takes process_task out past its finally clause.
AfterGetRaiseSkipsFinally(ph, got) ==
    IF got = "None" THEN (IF ph \in {"P", "G"} THEN "H" ELSE "fin")
    ELSE IF got = "raise" THEN (IF ph = "F" THEN "none" ELSE "F_get")
    ELSE IF ph = "P" THEN "P_set"
    ELSE IF ph = "G" THEN "G_hset"
    ELSE IF ph = "C" THEN "C_set"
    ELSE "F_set"

\* Where process_task is suspended next once the get_task of an update_task
\* has answered: update_task returns None on a missing record (the caller
\* goes on), the KeyError of a partial hash reaches the except clause (or
\* leaves it), a found record is followed by the sadd / srem or the hset.
\* "fin" stands for the finally clause, which runs without suspension.
AfterGet(ph, got) ==
    IF got = "None" THEN (IF ph \in {"P", "G"} THEN "H" ELSE "fin")
    ELSE IF got = "raise" THEN (IF ph = "F" THEN "fin" ELSE "F_get")
    ELSE IF ph = "P" THEN "P_set"
    ELSE IF ph = "G" THEN "G_hset"
    ELSE IF ph = "C" THEN "C_set"
    ELSE "F_set"

\* Between admission (the counter incremented) and the finally clause.
Admitted == {"P_get", "P_set", "P_hset", "H", "G_hset", "C_set", "C_hset",
             "F_get", "F_set", "F_hset"}

\* A finally clause that leaves the counter as it is.
GotoKeepsSlot(t, pc) ==
    /\ wpc' = [wpc EXCEPT ![t] = IF pc = "fin" THEN "none" ELSE pc]
    /\ counts' = counts

\* process_task moves to pc; "fin" is the finally clause: the counter is
\* decremented and the coroutine ends.
Goto(t, pc) ==
    IF pc = "fin"
    THEN /\ wpc' = [wpc EXCEPT ![t] = "none"]
         /\ counts' = [counts EXCEPT ![ttype[t]] = @ - 1]
    ELSE /\ wpc' = [wpc EXCEPT ![t] = pc]
         /\ counts' = counts

\* The most dequeues counted after a stop_worker.
MaxSinceStop == 2

\* start_worker: asyncio.create_task(worker_loop()); the new task has not run.
StartWorker ==
    /\ loop = "off"
    /\ loop' = "new"
    /\ UNCHANGED <<worker_running, sinceStop>>
    /\ UNCHANGED <<task, ttype, pending, processing, counts, wpc, hidx, canc,
                   nreq, cancelledPending, stamp>>
    /\ UNCHANGED <<ovars, hvars, starts>>

\* stop_worker: "_worker_running = False".
StopWorker ==
    /\ loop # "off"
    /\ sinceStop = -1
    /\ worker_running' = FALSE
    /\ sinceStop' = 0
    /\ UNCHANGED loop
    /\ UNCHANGED <<task, ttype, pending, processing, counts, wpc, hidx, canc,
                   nreq, cancelledPending, stamp>>
    /\ UNCHANGED <<ovars, hvars, starts>>

\* worker_loop from its first line to its first await: "_worker_running = True",
\* the while test, the call of get_next_pending_task.
LoopBegin ==
    /\ loop = "new"
    /\ worker_running' = TRUE
    /\ loop' = "poll"
    /\ UNCHANGED sinceStop
    /\ UNCHANGED <<task, ttype, pending, processing, counts, wpc, hidx, canc,
                   nreq, cancelledPending, stamp>>
    /\ UNCHANGED <<ovars, hvars, starts>>

\* worker_loop: the sleep after an empty poll is over, the while test finds
\* the flag cleared and the loop ends.
LoopExit ==
    /\ loop = "poll"
    /\ ~worker_running
    /\ loop' = "done"
    /\ UNCHANGED <<worker_running, sinceStop>>
    /\ UNCHANGED <<task, ttype, pending, processing, counts, wpc, hidx, canc,
                   nreq, cancelledPending, stamp>>
    /\ UNCHANGED <<ovars, hvars, starts>>

\* A restart that puts the ids the dead process held back on the pending list.
CrashReclaims ==
    LET held(t) == wpc[t] \in {"get", "requeue", "P_get", "P_set"}
    IN /\ loop = "poll"
       /\ nreq < MaxRequests
       /\ nreq' = nreq + 1
       /\ pending' = pending \o SelectSeq([i \in 1..MaxRequests |-> i], held)
       /\ counts' = [T \in TaskTypes |-> 0]
       /\ wpc' = [t \in TaskIds |-> "none"]
       /\ hidx' = [t \in TaskIds |-> 0]
       /\ stamp' = [t \in TaskIds |-> 0]
       /\ cpc' = [t \in TaskIds |-> "none"]
       /\ canc' = NoCancel
       /\ worker_running' = FALSE
       /\ loop' = "new"
       /\ sinceStop' = -1
       /\ UNCHANGED <<task, ttype, processing, cancelledPending, history, starts>>
       /\ UNCHANGED ovars

\* The process dies and is started again: every coroutine is gone, the
\* module state of the worker and the orchestrator is as at import (counters
\* 0, flag False, registry and status store empty, lock free), start_worker
\* creates a new worker_loop; what the key-value store holds stays.
Crash ==
    /\ loop = "poll"
    /\ nreq < MaxRequests
    /\ nreq' = nreq + 1
    /\ counts' = [T \in TaskTypes |-> 0]
    /\ wpc' = [t \in TaskIds |-> "none"]
    /\ hidx' = [t \in TaskIds |-> 0]
    /\ stamp' = [t \in TaskIds |-> 0]
    /\ cpc' = [t \in TaskIds |-> "none"]
    /\ canc' = NoCancel
    /\ worker_running' = FALSE
    /\ loop' = "new"
    /\ sinceStop' = -1
    /\ models' = [m \in ModelIds |-> NoModel]
    /\ regOrder' = <<>>
    /\ status' = [m \in ModelIds |-> StatusInfo("none", FALSE)]
    /\ lock' = 0
    /\ waitq' = <<>>
    /\ opc' = [p \in Procs |-> "idle"]
    /\ oarg' = [p \in Procs |-> NoArg]
    /\ live' = [m \in ModelIds |-> 0]
    /\ UNCHANGED <<task, ttype, pending, processing, cancelledPending, history, clock,
                   starts>>

\* A poll that reads the head of the pending list and leaves it there.
WorkerDequeuePeeks ==
    /\ loop = "poll"
    /\ pending # <<>>
    /\ wpc[Head(pending)] = "none"
    /\ wpc' = [wpc EXCEPT ![Head(pending)] = "get"]
    /\ pending' = pending
    /\ loop' = IF worker_running THEN "poll" ELSE "done"
    /\ sinceStop' = IF sinceStop = -1 \/ sinceStop = MaxSinceStop THEN sinceStop
                    ELSE sinceStop + 1
    /\ UNCHANGED worker_running
    /\ UNCHANGED <<task, ttype, processing, counts, hidx, canc, nreq,
                   cancelledPending, stamp>>
    /\ UNCHANGED <<ovars, hvars, starts>>

\* worker_loop: get_next_pending_task() pops the head of the pending list,
\* process_task(task_id) is started in the background, and the while test
\* decides whether the loop polls again.
WorkerDequeue ==
    /\ loop = "poll"
    /\ pending # <<>>
    /\ wpc[Head(pending)] = "none"
    /\ wpc' = [wpc EXCEPT ![Head(pending)] = "get"]
    /\ pending' = Tail(pending)
    /\ loop' = IF worker_running THEN "poll" ELSE "done"
    /\ sinceStop' = IF sinceStop = -1 \/ sinceStop = MaxSinceStop THEN sinceStop
                    ELSE sinceStop + 1
    /\ UNCHANGED worker_running
    /\ UNCHANGED <<task, ttype, processing, counts, hidx, canc, nreq,
                   cancelledPending, stamp>>
    /\ UNCHANGED <<ovars, hvars, starts>>

\* A process_task that sends the id of a missing record back to the rpush.
ProcessAdmitRequeuesMissing(t) ==
    /\ wpc[t] = "get"
    /\ IF GetTask(task[t]) # "task" \/ Saturated(counts, ttype[t])
       THEN /\ wpc' = [wpc EXCEPT ![t] = "requeue"]
            /\ counts' = counts
       ELSE /\ wpc' = [wpc EXCEPT ![t] = "P_get"]
            /\ counts' = [counts EXCEPT ![ttype[t]] = @ + 1]
    /\ UNCHANGED <<task, ttype, pending, processing, hidx, canc, nreq,
                   cancelledPending, stamp>>
    /\ UNCHANGED <<ovars, lvars, hvars, starts>>

\* process_task from the answer of its get_task to its next suspension: a
\* missing record is logged and the id dropped; a saturated type sends the id
\* to the rpush; otherwise the slot is taken and update_task(PROCESSING) begins.
ProcessAdmit(t) ==
    /\ wpc[t] = "get"
    /\ IF GetTask(task[t]) # "task"
       THEN /\ wpc' = [wpc EXCEPT ![t] = "none"]
            /\ counts' = counts
       ELSE IF Saturated(counts, ttype[t])
       THEN /\ wpc' = [wpc EXCEPT ![t] = "requeue"]
            /\ counts' = counts
       ELSE /\ wpc' = [wpc EXCEPT ![t] = "P_get"]
            /\ counts' = [counts EXCEPT ![ttype[t]] = @ + 1]
    /\ UNCHANGED <<task, ttype, pending, processing, hidx, canc, nreq,
                   cancelledPending, stamp>>
    /\ UNCHANGED <<ovars, lvars, hvars, starts>>

\* process_task: the rpush that puts a turned-away id back at the tail.
ProcessRequeue(t) ==
    /\ wpc[t] = "requeue"
    /\ pending' = Append(pending, t)
    /\ wpc' = [wpc EXCEPT ![t] = "none"]
    /\ UNCHANGED <<task, ttype, processing, counts, hidx, canc, nreq,
                   cancelledPending, stamp>>
    /\ UNCHANGED <<ovars, lvars, hvars, starts>>

\* The get_task of update_task(PROCESSING), and of update_task(FAILED) when
\* the except clause was entered from a raising update_task. When
\* update_task(PROCESSING) returns None, process_task goes on to call the
\* handler.
UpdateGet(t) ==
    /\ wpc[t] \in {"P_get", "F_get"}
    /\ Goto(t, AfterGet(Phase(wpc[t]), GetTask(task[t])))
    /\ stamp' = [stamp EXCEPT ![t] = IF GetTask(task[t]) = "task" THEN Now(t) ELSE 0]
    /\ starts' = [starts EXCEPT ![t] = IF wpc[t] = "P_get" /\ GetTask(task[t]) = "None"
                                       THEN @ + 1 ELSE @]
    /\ UNCHANGED <<task, ttype, pending, processing, hidx, canc, nreq,
                   cancelledPending>>
    /\ UNCHANGED <<ovars, lvars, hvars>>

\* update_task: the sadd / srem that goes with a status.
UpdateSet(t) ==
    LET ph == Phase(wpc[t])
    IN /\ wpc[t] \in {"P_set", "C_set", "F_set"}
       /\ processing' = SetOp(processing, t, Updates(ph, t).status)
       /\ wpc' = [wpc EXCEPT ![t] = IF ph = "P" THEN "P_hset"
                                     ELSE IF ph = "C" THEN "C_hset" ELSE "F_hset"]
       /\ UNCHANGED <<task, ttype, pending, counts, hidx, canc, nreq,
                      cancelledPending, stamp>>
       /\ UNCHANGED <<ovars, lvars, hvars, starts>>

\* update_task: the hset of the fields it was given; update_task returns and
\* its caller runs on: the handler starts (after the hset of PROCESSING) or
\* resumes, or process_task ends.
UpdateHSet(t) ==
    LET ph == Phase(wpc[t])
    IN /\ wpc[t] \in {"P_hset", "G_hset", "C_hset", "F_hset"}
       /\ task' = [task EXCEPT ![t] =
                      HSet(@, [Updates(ph, t) EXCEPT !.updated_at = stamp[t]])]
       /\ stamp' = [stamp EXCEPT ![t] = 0]
       /\ Goto(t, IF ph \in {"P", "G"} THEN "H" ELSE "fin")
       /\ hidx' = [hidx EXCEPT ![t] = IF ph = "G" THEN @ + 1
                                      ELSE IF ph = "P" THEN @ ELSE 0]
       /\ starts' = [starts EXCEPT ![t] = IF ph = "P" THEN @ + 1 ELSE @]
       /\ UNCHANGED <<ttype, pending, processing, canc, nreq,
                      cancelledPending>>
       /\ UNCHANGED <<ovars, lvars, hvars>>

\* The handler up to the get_task of the next update_task: it reports its
\* next progress value ("progress"), passes over a model that is not loaded
\* (llm_compare, "skip"), returns its result so that process_task writes
\* COMPLETED ("return"), or raises so that process_task writes FAILED.
HandlerStep(t, choice) ==
    LET plan == ProgressPlan[ttype[t]]
        got == GetTask(task[t])
        ph == IF choice = "progress" THEN "G" ELSE IF choice = "return" THEN "C" ELSE "F"
        nxt == AfterGet(ph, got)
    IN /\ wpc[t] = "H"
       /\ choice = "progress" => hidx[t] < Len(plan)
       /\ choice = "skip" => ttype[t] = "llm_compare" /\ hidx[t] < Len(plan)
       /\ choice = "return" => hidx[t] = Len(plan)
       /\ IF choice = "skip"
          THEN /\ hidx' = [hidx EXCEPT ![t] = @ + 1]
               /\ UNCHANGED <<wpc, counts, stamp>>
          ELSE /\ Goto(t, nxt)
               /\ stamp' = [stamp EXCEPT ![t] = IF got = "task" THEN Now(t) ELSE 0]
               /\ hidx' = [hidx EXCEPT ![t] =
                             IF nxt = "fin" THEN 0
                             ELSE IF nxt = "H" THEN @ + 1 ELSE @]
       /\ UNCHANGED <<task, ttype, pending, processing, canc, nreq,
                      cancelledPending>>
       /\ UNCHANGED <<ovars, lvars, hvars, starts>>

\* The steps the event loop runs for the coroutines of the worker.
WorkerStep(t) ==
    \/ ProcessAdmit(t)
    \/ ProcessRequeue(t)
    \/ UpdateGet(t)
    \/ UpdateSet(t)
    \/ UpdateHSet(t)
    \/ \E choice \in {"progress", "skip", "return", "raise"} : HandlerStep(t, choice)

CancelStep ==
    \/ CancelLRem
    \/ CancelGet
    \/ CancelSRem
    \/ CancelHSet

QInit ==
    /\ task = [t \in TaskIds |-> NoRecord("none")]
    /\ ttype = [t \in TaskIds |-> "none"]
    /\ pending = <<>>
    /\ processing = {}
    /\ counts = [T \in TaskTypes |-> 0]
    /\ wpc = [t \in TaskIds |-> "none"]
    /\ hidx = [t \in TaskIds |-> 0]
    /\ canc = NoCancel
    /\ nreq = 0
    /\ cancelledPending = {}
    /\ stamp = [t \in TaskIds |-> 0]
    /\ history = <<>>
    /\ cpc = [t \in TaskIds |-> "none"]
    /\ starts = [t \in TaskIds |-> 0]

\* The worker has been started and its loop is polling.
WorkerPolling ==
    /\ worker_running = TRUE
    /\ loop = "poll"
    /\ sinceStop = -1

\* start_worker has not been called.
WorkerOff ==
    /\ worker_running = FALSE
    /\ loop = "off"
    /\ sinceStop = -1

Init == OInit /\ QInit /\ WorkerPolling

LifeInit == OInit /\ QInit /\ WorkerOff

Next ==
    \/ \E T \in TaskTypes : CreateTask(T)
    \/ \E t \in TaskIds : Expire(t)
    \/ \E t \in TaskIds : CancelCall(t)
    \/ CancelStep
    \/ WorkerDequeue
    \/ \E t \in TaskIds : WorkerStep(t)

\* Starting and stopping the worker while tasks are created and processed
\* (no Cancel call, no expiry: Spec covers those).
LifeNext ==
    \/ StartWorker
    \/ StopWorker
    \/ LoopBegin
    \/ LoopExit
    \/ \E T \in TaskTypes : CreateTask(T)
    \/ WorkerDequeue
    \/ \E t \in TaskIds : WorkerStep(t)

\* Tasks created by one user: the calls and the steps of their history writes.
HistNext ==
    \/ \E T \in TaskTypes : CreateTaskForUser(T)
    \/ \E t \in TaskIds : HistoryStep(t)

\* The task store and the worker.
Spec == Init /\ [][Next]_vars

\* The history list of a user who creates tasks.
HistSpec == Init /\ [][HistNext]_vars

\* One type for each concurrency limit: llm_compare (1) and image (2).
FairTypes == {"llm_compare", "image"}

FairNext ==
    \/ \E T \in FairTypes : CreateTask(T)
    \/ \E t \in TaskIds : Expire(t)
    \/ \E t \in TaskIds : CancelCall(t)
    \/ CancelStep
    \/ WorkerDequeue
    \/ \E t \in TaskIds : WorkerStep(t)

\* The task store and the worker on an event loop that runs every coroutine
\* that can run: the polling loop takes the head of a non-empty list, every
\* process_task takes its next step (a handler goes on until it ends), and a
\* cancel_task under way takes its next step.
FairSpec ==
    /\ Init
    /\ [][FairNext]_vars
    /\ WF_vars(WorkerDequeue)
    /\ WF_vars(CancelStep)
    /\ \A t \in TaskIds : WF_vars(WorkerStep(t))

\* The worker started and stopped.
LifeSpec == LifeInit /\ [][LifeNext]_vars

\* The task store and the worker in a process that may die and be restarted.
CrashNext ==
    \/ Crash
    \/ LoopBegin
    \/ \E T \in TaskTypes : CreateTask(T)
    \/ \E t \in TaskIds : Expire(t)
    \/ \E t \in TaskIds : CancelCall(t)
    \/ CancelStep
    \/ WorkerDequeue
    \/ \E t \in TaskIds : WorkerStep(t)

CrashSpec == Init /\ [][CrashNext]_vars

\* The orchestrator.
OrchSpec == Init /\ [][OrchNext]_vars

\* The orchestrator on an event loop that runs every coroutine that can run:
\* a call that is not blocked takes its next step.
OrchFairSpec == OrchSpec /\ \A p \in Procs : WF_vars(OrchStep(p))

(***************************************************************************)
(* Properties of the orchestrator.                                         *)
(***************************************************************************)
\* C1 (scenario 1): with A and B resident, A the least recently used, a load
\* of C that has to evict runs to completion and leaves exactly B and C
\* resident.
C1_Scenario1Completes ==
    \A p \in Procs :
        (/\ oarg[p].ctx = "evict"
         /\ ~oarg[p].direct
         /\ oarg[p].m = "C"
         /\ oarg[p].target = "A"
         /\ Resident(models) = {"A", "B"})
        ~> (opc[p] = "idle" /\ Resident(models) = {"B", "C"})

\* C5: when ensure_memory_available starts to evict, the model it unloads
\* first has the smallest last_used among the residents other than the
\* model being loaded.
C5_FirstVictimIsLRU ==
    [][\A p \in Procs :
          (oarg[p].ctx # "evict" /\ oarg'[p].ctx = "evict") =>
             /\ oarg'[p].target \in Resident(models') \ {oarg'[p].m}
             /\ \A x \in Resident(models') \ {oarg'[p].m} :
                   models'[oarg'[p].target].last_used <= models'[x].last_used]_vars

\* B was loaded after A, A was used since, and B, chosen as first victim, is
\* being unloaded.
C5_Witness ==
    \E p \in Procs :
        /\ opc[p] = "unl_adapter"
        /\ oarg[p].ctx = "evict"
        /\ oarg[p].target = "B"
        /\ "A" \in Resident(models)
        /\ models["A"].loaded_at < models["B"].loaded_at

NoDuplicates(s) == \A i, j \in 1..Len(s) : s[i] = s[j] => i = j

\* C6: every LoadedModel created and not yet destroyed is the one entry the
\* registry holds for its model_id: no id has two of them, and the keys of
\* the registry hold each resident id once.
C6_OneEntryPerId ==
    /\ \A m \in ModelIds : live[m] = IF m \in Resident(models) THEN 1 ELSE 0
    /\ NoDuplicates(regOrder)
    /\ {regOrder[i] : i \in 1..Len(regOrder)} = Resident(models)

\* A model that was loaded again (or after another) is resident while a second
\* caller waits to load the same id.
C6_Witness ==
    \E p \in Procs :
        /\ opc[p] = "wait_lock"
        /\ oarg[p].ctx = "load"
        /\ oarg[p].m \in Resident(models)
        /\ models[oarg[p].m].loaded_at > 1

(***************************************************************************)
(* Properties of the task store and the worker.                            *)
(***************************************************************************)
\* Tasks of type T admitted by the worker whose process_task has not ended.
InFlight(T) == Cardinality({t \in TaskIds : ttype[t] = T /\ wpc[t] \in Admitted})

\* An id is in the pending list at most once, and never while a process_task
\* coroutine holds it.
QueueSane ==
    /\ NoDuplicates(pending)
    /\ \A t \in TaskIds : InQueue(pending, t) => wpc[t] = "none" /\ ttype[t] # "none"
    /\ \A T \in TaskTypes : counts[T] = InFlight(T)

\* C2: at every instant the tasks of a type that are admitted and not yet
\* finished number at most CONCURRENCY_LIMITS of that type.
C2_CapEnforced ==
    \A T \in TaskTypes : InFlight(T) <= CONCURRENCY_LIMITS[T]

\* Two image tasks are in flight and a third one is being turned away.
C2_Witness ==
    /\ InFlight("image") = CONCURRENCY_LIMITS["image"]
    /\ \E t \in TaskIds : ttype[t] = "image" /\ wpc[t] = "requeue"

StatusMayFollow(a, b) ==
    \/ a = b
    \/ a = "pending" /\ b \in {"processing", "cancelled"}
    \/ a = "processing" /\ b \in {"completed", "failed", "cancelled"}

\* C3: the stored status of a task only moves along pending -> processing ->
\* {completed, failed} or {pending, processing} -> cancelled.
C3_StatusMonotone ==
    [][\A t \in TaskIds :
          (task[t].hash = "full" /\ task'[t].hash = "full") =>
             StatusMayFollow(task[t].status, task'[t].status)]_vars

\* C4: once Cancel has returned for a task it found pending, the stored status
\* stays cancelled and get_next_pending_task never hands the id out again.
C4_CancelledNeverHandedOut ==
    [][\A t \in cancelledPending :
          /\ ~(wpc[t] = "none" /\ wpc'[t] = "get")
          /\ task'[t].hash = "full" => task'[t].status = "cancelled"]_vars

\* C7: while a type is never saturated (no more tasks of it exist than its
\* cap), its tasks are moved to processing in the order of their creation: when
\* one is, no task of the type created after it has been before.
C7_FifoWithinType ==
    [][\A i, j \in TaskIds :
          (/\ i < j
           /\ ttype[i] = ttype[j]
           /\ ttype[i] # "none"
           /\ Cardinality({t \in TaskIds : ttype[t] = ttype[i]})
                 <= CONCURRENCY_LIMITS[ttype[i]]
           /\ task[i].status = "pending"
           /\ task'[i].status = "processing")
          => task[j].status \notin {"processing", "completed", "failed"}]_vars

\* C8: once the status of a record is completed, failed or cancelled, no
\* step changes any of its fields; the record can only expire.
C8_TerminalFrozen ==
    [][\A t \in TaskIds :
          (task[t].hash = "full" /\ task[t].status \in Terminal) =>
             (task'[t] = task[t] \/ task'[t].hash = "gone")]_vars

\* C9 as stated: an id whose record has expired is not handed out by
\* get_next_pending_task.
C9_ExpiredNotHandedOut ==
    [][\A t \in TaskIds :
          (wpc[t] = "none" /\ wpc'[t] = "get") => task[t].hash # "gone"]_vars

\* C9 as amended: while the key of an expired record is absent, get_task
\* answers None, and the process_task started for the id (which the pending
\* list still handed out) drops it: nothing is admitted, requeued or written.
C9_ExpiredIsDropped ==
    [][\A t \in TaskIds :
          (wpc[t] = "get" /\ task[t].hash = "gone" /\ wpc'[t] # "get") =>
             /\ GetTask(task[t]) = "None"
             /\ wpc'[t] = "none"
             /\ UNCHANGED <<task, pending, processing, counts>>]_vars

\* The expired id of a task that was never admitted has been handed out.
C9_Witness ==
    \E t \in TaskIds :
        /\ wpc[t] = "get"
        /\ task[t].hash = "gone"
        /\ \A T \in TaskTypes : counts[T] = 0

\* C10: a dequeued task whose type is saturated goes back to the tail of the
\* pending list, its record and all counters unchanged, while a task of a
\* type that is not saturated is admitted.
C10_RequeueAtTail ==
    [][\A t \in TaskIds :
          /\ (wpc[t] = "get" /\ GetTask(task[t]) = "task" /\ wpc'[t] # "get") =>
                IF counts[ttype[t]] >= CONCURRENCY_LIMITS[ttype[t]]
                THEN /\ wpc'[t] = "requeue"
                     /\ UNCHANGED <<task, pending, processing, counts>>
                ELSE /\ wpc'[t] = "P_get"
                     /\ counts' = [counts EXCEPT ![ttype[t]] = @ + 1]
          /\ (wpc[t] = "requeue" /\ wpc'[t] # "requeue") =>
                /\ pending' = Append(pending, t)
                /\ wpc'[t] = "none"
                /\ UNCHANGED <<task, processing, counts>>]_vars

\* Scenario 5: a video job is in flight, video X (created before image Y) is
\* back in the pending list with status pending, and Y is completed.
C10_Witness ==
    \E v, x, y \in TaskIds :
        /\ ttype[v] = "video" /\ wpc[v] \in Admitted
        /\ ttype[x] = "video" /\ InQueue(pending, x) /\ task[x].status = "pending"
        /\ ttype[y] = "image" /\ task[y].status = "completed"
        /\ x < y

\* C11: unload(id) of an id that is not in the registry returns at once: the
\* adapter is not called, and the registry, the status store, the instances
\* and the lock are as they were. Stated for a call that takes the lock at
\* once (the outcome of unload on the current state) and for a call that had
\* to wait for the lock.
C11_UnloadMissingIsNoOp ==
    [][/\ \A p \in Procs, m \in ModelIds \ Resident(models) :
             UnloadBody(p, [NoArg EXCEPT !.m = m, !.ctx = "unload", !.target = m],
                        Cur, TRUE) = Returned(Cur)
       /\ \A p \in Procs :
             (/\ opc[p] = "wait_lock"
              /\ oarg[p].ctx = "unload"
              /\ oarg[p].target \notin Resident(models)
              /\ opc'[p] # "wait_lock")
             => /\ opc'[p] = "idle"
                /\ UNCHANGED <<models, regOrder, status, live, lock>>]_vars

\* A caller waits to unload an id that another call has unloaded meanwhile,
\* and the lock is free for it.
C11_Witness ==
    \E p \in Procs :
        /\ opc[p] = "wait_lock"
        /\ oarg[p].ctx = "unload"
        /\ oarg[p].target \notin Resident(models)
        /\ status[oarg[p].target].status = "not_loaded"
        /\ lock = 0
        /\ Head(waitq) = p

\* C12: when the estimate (or the memory probe) or the adapter's loader raises
\* in load(id), the call ends by raising with status[id] = Error (the message
\* recorded), id not in the registry and the lock released; and a load that
\* has reached the adapter ends either so or with id resident and Loaded.
C12_LoadFailureRecorded ==
    [][/\ \A p \in Procs :
             opc[p] = "load_adapter" =>
                LET out == LoadDone(p, oarg[p], Cur, FALSE)
                IN /\ out.exc /\ out.pc = "idle" /\ out.st.lock = 0
                   /\ out.st.status[oarg[p].m] = StatusInfo("error", TRUE)
                   /\ oarg[p].m \notin Resident(out.st.models)
       /\ \A p \in Procs, m \in ModelIds \ Resident(models) :
             LET out == BeginLoad(p, [NoArg EXCEPT !.m = m, !.ctx = "load",
                                                   !.target = m, !.est = FALSE],
                                  [Cur EXCEPT !.lock = p])
             IN /\ out.exc /\ out.pc = "idle" /\ out.st.lock = 0
                /\ out.st.status[m] = StatusInfo("error", TRUE)
                /\ m \notin Resident(out.st.models)
       /\ \A p \in Procs :
             (opc[p] = "load_adapter" /\ opc'[p] # "load_adapter") =>
                /\ opc'[p] = "idle"
                /\ lock' = 0
                /\ \/ /\ status'[oarg[p].m] = StatusInfo("error", TRUE)
                      /\ oarg[p].m \notin Resident(models')
                      /\ UNCHANGED <<models, regOrder, live>>
                   \/ /\ status'[oarg[p].m] = StatusInfo("loaded", FALSE)
                      /\ oarg[p].m \in Resident(models')]_vars

\* A load has failed: the id shows Error and is not resident, while another
\* model is.
C12_Witness ==
    \E m \in ModelIds :
        /\ status[m] = StatusInfo("error", TRUE)
        /\ m \notin Resident(models)
        /\ Resident(models) # {}
        /\ lock = 0

\* C13: load(m, force=True) on a resident m unloads the old instance before
\* the adapter's loader is called (while the loader runs no instance of m is
\* left and m is not in the registry), and on success the registry holds m
\* once, with a loaded_at later than that of the entry it replaces.
C13_ForceReloadReplaces ==
    [][\A p \in Procs :
          (opc[p] = "load_adapter" /\ oarg[p].prev > 0) =>
             /\ oarg[p].force
             /\ live[oarg[p].m] = 0
             /\ oarg[p].m \notin Resident(models)
             /\ (opc'[p] = "idle" /\ oarg[p].m \in Resident(models')) =>
                   /\ models'[oarg[p].m].loaded_at > oarg[p].prev
                   /\ live'[oarg[p].m] = 1
                   /\ Cardinality({i \in 1..Len(regOrder') :
                                     regOrder'[i] = oarg[p].m}) = 1]_vars

\* The old instance of a forced load is gone, the loader is running, and
\* another model is resident.
C13_Witness ==
    \E p \in Procs :
        /\ opc[p] = "load_adapter"
        /\ oarg[p].prev > 0
        /\ Resident(models) # {}
        /\ clock <= MaxClock

\* C14 as stated: when process_task of an admitted task ends, its record shows
\* Completed with progress 100 and the result, or Failed with the error, and
\* the counter of its type has gone down by one.
C14_TerminalAlwaysWritten ==
    [][\A t \in TaskIds :
          (wpc[t] \in Admitted /\ wpc'[t] = "none") =>
             /\ counts'[ttype[t]] = counts[ttype[t]] - 1
             /\ \/ /\ task'[t].status = "completed"
                   /\ task'[t].progress = 100
                   /\ task'[t].result
                \/ /\ task'[t].status = "failed"
                   /\ task'[t].error]_vars

\* C14 as amended: process_task of an admitted task ends either with its
\* write (Completed, progress 100 and the result after the handler returned;
\* Failed and the error after a raise) or, without a write, on a record that
\* get_task does not find or cannot read; the counter of its type goes down
\* by one on that step and is not touched by the task before.
C14_TerminalWrittenIfFound ==
    [][\A t \in TaskIds :
          /\ (wpc[t] \in Admitted /\ wpc'[t] = "none") =>
                /\ counts' = [counts EXCEPT ![ttype[t]] = @ - 1]
                /\ wpc[t] = "C_hset" =>
                      /\ task'[t].status = "completed"
                      /\ task'[t].progress = 100
                      /\ task'[t].result
                /\ wpc[t] = "F_hset" =>
                      /\ task'[t].status = "failed"
                      /\ task'[t].error
                /\ wpc[t] \notin {"C_hset", "F_hset"} =>
                      /\ GetTask(task[t]) # "task"
                      /\ task' = task
          /\ (wpc[t] \in Admitted /\ wpc'[t] \in Admitted /\ wpc'[t] # wpc[t]) =>
                counts' = counts]_vars

\* A task has run to its end: Completed, progress 100, the result stored and
\* the counter of its type back at 0.
C14_Witness ==
    \E t \in TaskIds :
        /\ wpc[t] = "none"
        /\ task[t].hash = "full"
        /\ task[t].status = "completed"
        /\ task[t].progress = 100
        /\ task[t].result
        /\ counts[ttype[t]] = 0

\* C15: a stored progress of 100 goes with status Completed or Failed.
C15_FullProgressIsTerminal ==
    \A t \in TaskIds :
        (task[t].hash = "full" /\ task[t].progress = 100) =>
            task[t].status \in {"completed", "failed"}

\* C16: a record holds a result exactly when its status is Completed, and an
\* error exactly when its status is Failed.
C16_ResultIffCompleted ==
    \A t \in TaskIds :
        task[t].hash = "full" =>
            /\ task[t].result <=> task[t].status = "completed"
            /\ task[t].error <=> task[t].status = "failed"

\* An update_task call on task t is under way: the worker's or cancel_task's.
UpdateInFlight(t) ==
    \/ wpc[t] \in {"P_get", "P_set", "P_hset", "G_hset", "C_set", "C_hset",
                   "F_get", "F_set", "F_hset"}
    \/ canc.t = t /\ canc.pc \in {"get", "set", "hset"}

\* C17: whenever no update of a task is under way, its id is in
\* queue:processing exactly when its record shows status Processing.
C17_ProcessingSetMirrors ==
    \A t \in TaskIds :
        ~UpdateInFlight(t) =>
            (t \in processing <=> task[t].status = "processing")

\* C18: every mutation of a stored record writes an updated_at later than
\* the one it replaces.
C18_UpdatedAtIncreases ==
    [][\A t \in TaskIds :
          (task[t].hash = "full" /\ task'[t].hash = "full" /\ task'[t] # task[t])
              => task'[t].updated_at > task[t].updated_at]_vars

\* C19: once stop_worker has been called after start_worker, worker_loop
\* takes at most one more id from the pending list.
C19_StopEndsLoop == sinceStop <= 1

\* C20: every id the polling loop has taken from the pending list is
\* eventually handed to its handler.
C20_DequeuedIsAttempted ==
    \A t \in TaskIds : (wpc[t] = "get") ~> (wpc[t] = "H")

\* C20 as the code has it: an id taken from the pending list is eventually
\* handed to its handler, unless its record is missing or unreadable (expired,
\* or left without its fields by a write after the expiry) or the task is
\* cancelled (a Cancel takes a requeued id off the list again).
C20_DequeuedIsAttemptedIfReadable ==
    \A t \in TaskIds :
        (wpc[t] = "get") ~>
            (wpc[t] = "H" \/ task[t].hash # "full" \/ task[t].status = "cancelled")

\* A task is with its handler while another of its type is turned away.
C20_Witness ==
    \E t \in TaskIds, u \in TaskIds :
        /\ t # u
        /\ wpc[t] = "H"
        /\ task[t].hash = "full"
        /\ ttype[u] = ttype[t]
        /\ task[u].hash = "full"
        /\ wpc[u] = "requeue"

RECURSIVE SumRegistry(_, _)
SumRegistry(S, mdl) ==
    IF S = {} THEN 0
    ELSE LET m == CHOOSE x \in S : TRUE
         IN mdl[m].memory_mb + SumRegistry(S \ {m}, mdl)

\* C22: the memory_mb of the resident models add up to no more than the
\* accelerator's total memory.
C22_RegistryWithinTotal ==
    SumRegistry(Resident(models), models) <= GPUTotal.total_mb

\* C23: when the unload of an eviction candidate fails and candidates are
\* left, ensure_memory_available goes on with the next candidate instead of
\* ending there.
C23_EvictionSkipsFailedUnload ==
    [][\A p \in Procs :
          (/\ opc[p] = "unl_adapter"
           /\ oarg[p].ctx = "evict"
           /\ oarg[p].cands # <<>>
           /\ status[oarg[p].target].status = "unloading"
           /\ status'[oarg[p].target].status = "error")
              => opc'[p] # "idle"]_vars

\* The callers suspended in an adapter call (the loader or the unloader).
InAdapter == {p \in Procs : opc[p] \in {"load_adapter", "unl_adapter"}}

\* C24: at most one adapter load or unload is in progress at any instant,
\* the caller it belongs to holds the orchestrator's lock, and the lock is
\* held only by a call suspended inside load() or unload().
C24_OneAdapterCallAtATime ==
    /\ Cardinality(InAdapter) <= 1
    /\ \A p \in InAdapter : lock = p
    /\ lock # 0 => opc[lock] \in {"load_adapter", "unl_adapter", "wait_lock"}

\* One caller is in an adapter call while the other waits for the lock.
C24_Witness ==
    \E p \in Procs, q \in Procs :
        /\ p \in InAdapter
        /\ opc[q] = "wait_lock"
        /\ q # p

\* The ids of a list are in the order newest created first.
NewestFirst(h) == \A i \in 1..Len(h), j \in 1..Len(h) : i < j => h[i] > h[j]

\* C25: when a create_task of the user returns, the user's history list holds
\* at most the cap of ids, newest created first.
C25_HistoryCappedNewestFirst ==
    [][\A t \in TaskIds :
          (cpc[t] = "expire" /\ cpc'[t] = "done")
              => /\ Len(history') <= MaxHistory
                 /\ NewestFirst(history')]_vars

\* C26: the hset of an update_task that was given only a progress leaves the
\* stored status, result and error as it finds them, whatever other update or
\* cancel has written in between.
C26_ProgressOnlyKeepsStatus ==
    [][\A t \in TaskIds :
          (wpc[t] = "G_hset" /\ wpc'[t] # "G_hset")
              => /\ task'[t].status = task[t].status
                 /\ task'[t].result = task[t].result
                 /\ task'[t].error = task[t].error
                 /\ task'[t].progress = ProgressPlan[ttype[t]][hidx[t] + 1]]_vars

\* A progress report has been written, a Cancel has written Cancelled, and
\* the next progress report of the handler is on its way to the record.
C26_Witness ==
    \E t \in TaskIds :
        /\ task[t].hash = "full"
        /\ task[t].status = "cancelled"
        /\ task[t].progress > 0
        /\ wpc[t] = "G_hset"

\* C27: no call waits for the orchestrator's lock while it holds that lock.
C27_NoReentrantAcquire ==
    \A p \in Procs : ~(opc[p] = "wait_lock" /\ lock = p)

\* Caller p hands a new victim to unload() in this step of its eviction walk.
PicksVictim(p) ==
    /\ oarg'[p].ctx = "evict"
    /\ opc'[p] \in {"wait_lock", "unl_adapter"}
    /\ \/ opc[p] \notin {"wait_lock", "unl_adapter"}
       \/ oarg[p].ctx # "evict"
       \/ oarg'[p].target # oarg[p].target

\* C28: ensure_memory_available hands a victim to unload() only when the free
\* memory it has just sampled is below what is required; the victim is never
\* the excluded id and is no more recently used than the candidates still to
\* come; and a walk that finds enough memory on entry unloads nothing.
C28_EvictionWalk ==
    [][\A p \in Procs :
          /\ PicksVictim(p) =>
                /\ FreeMB(live') < EstimateMB[oarg'[p].m]
                /\ oarg'[p].target # oarg'[p].m
                /\ \A i \in 1..Len(oarg'[p].cands) :
                      /\ oarg'[p].cands[i] # oarg'[p].m
                      /\ models'[oarg'[p].target].last_used
                            <= models'[oarg'[p].cands[i]].last_used
          /\ (opc[p] = "unl_adapter" /\ oarg[p].ctx = "evict"
                /\ Resident(models') # Resident(models))
                => Resident(models') = Resident(models) \ {oarg[p].target}]_vars

\* A walk has unloaded its first victim and is unloading the second.
C28_Witness ==
    \E p \in Procs :
        /\ opc[p] = "unl_adapter"
        /\ oarg[p].ctx = "evict"
        /\ oarg[p].cands = <<>>
        /\ Cardinality(Resident(models)) = 1
        /\ status[oarg[p].m].status # "loaded"
        /\ \E x \in ModelIds \ {oarg[p].m, oarg[p].target} :
              status[x].status = "not_loaded"

\* C29: when process_task finds no record for the id it was started with, it
\* ends there: the id is not put back on the pending list, no counter moves,
\* and the record and the processing set are left as they are.
C29_MissingRecordDropped ==
    [][\A t \in TaskIds :
          (wpc[t] = "get" /\ GetTask(task[t]) = "None" /\ wpc'[t] # "get") =>
             /\ wpc'[t] = "none"
             /\ ~InQueue(pending', t)
             /\ counts' = counts
             /\ task' = task
             /\ processing' = processing
             /\ pending' = pending]_vars

\* process_task is about to read a record that is missing while a task of the
\* same type is being processed.
C29_Witness ==
    \E t \in TaskIds :
        /\ wpc[t] = "get"
        /\ GetTask(task[t]) = "None"
        /\ counts[ttype[t]] > 0

\* C30: a cancel_task that found its task Processing leaves the task's
\* process_task and every counter as they are at each of its steps, and the
\* status its hset leaves in the record is Cancelled (readable when the
\* record was there); a counter goes down only in the step in which a
\* process_task that held the slot ends.
C30_CancelDoesNotPreempt ==
    [][/\ (canc.saw = "processing" /\ canc.pc # "idle" /\ canc' # canc) =>
             /\ wpc' = wpc
             /\ hidx' = hidx
             /\ counts' = counts
             /\ canc.pc = "hset" =>
                   /\ task'[canc.t].status = "cancelled"
                   /\ task[canc.t].hash = "full" => GetTask(task'[canc.t]) = "task"
       /\ \A T \in TaskTypes :
             counts'[T] < counts[T] =>
                \E t \in TaskIds :
                   /\ ttype[t] = T
                   /\ wpc[t] \in Admitted
                   /\ wpc'[t] = "none"]_vars

\* A Cancel that found the task Processing has returned, the record says
\* Cancelled, and the handler is still running with its slot taken.
C30_Witness ==
    \E t \in TaskIds :
        /\ canc.pc = "idle"
        /\ t \notin cancelledPending
        /\ task[t].hash = "full"
        /\ task[t].status = "cancelled"
        /\ wpc[t] = "H"
        /\ counts[ttype[t]] > 0

\* The id of a task was taken from the pending list by a process that died
\* before its update_task(PROCESSING) wrote anything: the record still shows
\* Pending and no coroutine holds the id.
Orphan(t) ==
    /\ task[t].hash = "full"
    /\ task[t].status = "pending"
    /\ wpc[t] = "none"
    /\ ~InQueue(pending, t)
    /\ t \notin processing
    /\ canc.t # t

\* process_task has the id and has not reached the sadd of
\* update_task(PROCESSING).
BeforeTransition == {"get", "requeue", "P_get", "P_set"}

\* C31: when the process dies while a process_task holds a dequeued id and
\* has written nothing of the Processing transition, the restarted process
\* finds the id in neither the pending list nor the processing set with its
\* record as it was (Pending); and from then on no step starts a process_task
\* for the id or puts it on the pending list.
C31_CrashLosesDequeued ==
    [][/\ \A t \in TaskIds :
             (/\ loop = "poll" /\ loop' = "new"
              /\ wpc[t] \in BeforeTransition
              /\ task[t].hash = "full" /\ task[t].status = "pending"
              /\ t \notin processing)
             => /\ ~InQueue(pending', t)
                /\ t \notin processing'
                /\ task'[t] = task[t]
                /\ wpc'[t] = "none"
                /\ canc'.t # t
       /\ \A t \in TaskIds :
             (ttype[t] # "none" /\ wpc[t] = "none" /\ ~InQueue(pending, t))
             => /\ wpc'[t] = "none"
                /\ ~InQueue(pending', t)
       /\ \A t \in TaskIds :
             Orphan(t) => /\ t \notin processing'
                          /\ task'[t].status \in {"pending", "cancelled", "none"}]_vars

\* After a restart the loop polls again and has taken a later task, while the
\* id the dead process held is in no list, its record Pending.
C31_Witness ==
    \E t \in TaskIds, u \in TaskIds :
        /\ Orphan(t)
        /\ loop = "poll"
        /\ t < u
        /\ wpc[u] \in Admitted

\* The orchestrator's state after the entry of m has been touched and nothing
\* else has changed.
OnlyTouched(m) ==
    [Cur EXCEPT !.models = Touched(models, m, clock), !.clock = clock + 1]

\* C32: load(id, force=False) and ensure_loaded(id) on a resident id return
\* without an adapter call and change nothing but the last_used of that
\* entry: the status store, the other entries, the instances and the lock are
\* as they were. Stated for load() with the lock taken (at once, or after a
\* wait) and for the fast path of ensure_loaded.
C32_ResidentLoadOnlyTouches ==
    [][/\ \A p \in Procs, m \in Resident(models) :
             LoadBody(p, [NoArg EXCEPT !.m = m, !.ctx = "load", !.target = m], Cur)
                = Returned(OnlyTouched(m))
       /\ \A p \in Procs :
             (/\ opc[p] = "wait_lock"
              /\ oarg[p].ctx = "load"
              /\ ~oarg[p].force
              /\ oarg[p].m \in Resident(models)
              /\ opc'[p] # "wait_lock")
             => /\ opc'[p] = "idle"
                /\ models' = Touched(models, oarg[p].m, clock)
                /\ UNCHANGED <<regOrder, status, live, lock>>
       /\ \A p \in Procs, m \in Resident(models), est \in BOOLEAN :
             (EnsureLoaded(p, m, est) \/ (lock = 0 /\ waitq = <<>> /\ CallLoad(p, m, FALSE, est)))
             => /\ opc' = opc
                /\ models' = Touched(models, m, clock)
                /\ UNCHANGED <<regOrder, status, live, lock, waitq>>]_vars

\* A load without force has waited for the lock; the id it names is resident
\* with a failed unload behind it (status Error), and the lock is free for it.
C32_Witness ==
    \E p \in Procs :
        /\ opc[p] = "wait_lock"
        /\ oarg[p].ctx = "load"
        /\ ~oarg[p].force
        /\ oarg[p].m \in Resident(models)
        /\ status[oarg[p].m].status = "error"
        /\ lock = 0
        /\ clock <= MaxClock

\* Caller q waits for the lock in a load() without force (called directly or
\* by ensure_loaded).
WaitsToLoad(q) ==
    /\ opc[q] = "wait_lock"
    /\ oarg[q].ctx = "load"
    /\ ~oarg[q].force

\* C33: when a load of an id succeeds while another load (without force) of
\* the same id waits for the lock, the waiting call is the next to take the
\* lock, the entry stays in the registry while it waits, and it returns that
\* entry without a second call of the adapter's loader: one instance of the id
\* is loaded, with the loaded_at the first call gave it.
C33_ConcurrentLoadsLoadOnce ==
    [][\A p \in Procs, q \in Procs :
          /\ (/\ p # q
              /\ WaitsToLoad(q)
              /\ opc[p] = "load_adapter"
              /\ oarg[p].m = oarg[q].m
              /\ opc'[p] = "idle"
              /\ status'[oarg[q].m].status = "loaded")
             => /\ oarg[q].m \in Resident(models')
                /\ live'[oarg[q].m] = 1
                /\ lock' = 0
                /\ WaitsToLoad(q)'
                /\ Head(waitq') = q
          /\ (/\ WaitsToLoad(q)
              /\ oarg[q].m \in Resident(models)
              /\ lock = 0)
             => /\ oarg[q].m \in Resident(models')
                /\ models'[oarg[q].m].loaded_at = models[oarg[q].m].loaded_at
                /\ live'[oarg[q].m] = 1
                /\ opc'[q] \in {"wait_lock", "idle"}]_vars

\* Two loads of the same id, not resident: one is in the adapter's loader,
\* the other waits for the lock, while another model is resident.
C33_Witness ==
    \E p \in Procs, q \in Procs :
        /\ p # q
        /\ WaitsToLoad(q)
        /\ opc[p] = "load_adapter"
        /\ ~oarg[p].force
        /\ oarg[p].m = oarg[q].m
        /\ oarg[q].m \notin Resident(models)
        /\ Resident(models) # {}

\* C34: the status store and the registry agree at every instant: an id
\* with status Loaded is resident, an id with status Loading or NotLoaded is
\* not, and the status of a resident id is Loaded, Unloading or Error.
C34_StatusAgreesWithRegistry ==
    \A m \in ModelIds :
        /\ status[m].status = "loaded" => m \in Resident(models)
        /\ status[m].status \in {"loading", "not_loaded"} => m \notin Resident(models)
        /\ m \in Resident(models) => status[m].status \in {"loaded", "unloading", "error"}

\* One model is resident after a failed unload (Error), another is being
\* unloaded, and a third is being loaded or was unloaded.
C34_Witness ==
    \E a \in ModelIds, b \in ModelIds, c \in ModelIds :
        /\ a \in Resident(models) /\ status[a].status = "error"
        /\ b \in Resident(models) /\ status[b].status = "unloading"
        /\ c \notin Resident(models) /\ status[c].status \in {"loading", "not_loaded"}

\* C35: the entry that get, get_by_type or the fast path of ensure_loaded
\* hands out has status Loaded at that moment: never one whose unload is in
\* progress or has failed.
C35_AccessorsReturnLoaded ==
    [][\A m \in Resident(models) :
          (\/ Get(m)
           \/ \E t \in ModelTypes : GetByType(t) /\ models'[m] # models[m]
           \/ \E p \in Procs, est \in BOOLEAN : EnsureLoaded(p, m, est))
          => status[m].status = "loaded"]_vars

\* C36: without a death of the process the handler of a task is called at
\* most once: an id is on the pending list at most once and only while no
\* process_task holds it and its handler has not been called; and a
\* process_task that was handed an id goes exactly one way: it drops the id,
\* or sends it to the rpush (which puts it back once, at the tail), or takes
\* the slot.
C36_HandlerStartedAtMostOnce ==
    [][/\ NoDuplicates(pending')
       /\ \A t \in TaskIds :
             /\ starts'[t] <= 1
             /\ InQueue(pending', t) => wpc'[t] = "none" /\ starts'[t] = 0
             /\ (wpc[t] = "get" /\ wpc'[t] # "get") =>
                   /\ wpc'[t] \in {"none", "requeue", "P_get"}
                   /\ pending' = pending
                   /\ starts' = starts
             /\ (wpc[t] = "requeue" /\ wpc'[t] # "requeue") =>
                   /\ wpc'[t] = "none"
                   /\ pending' = Append(pending, t)
             /\ starts'[t] > starts[t] => wpc[t] \in {"P_get", "P_hset"} /\ wpc'[t] = "H"]_vars

\* A task that was turned away is back on the pending list, its handler not
\* called, while the handler of a task created after it has been called.
C36_Witness ==
    \E u \in TaskIds, t \in TaskIds :
        /\ u < t
        /\ InQueue(pending, u)
        /\ starts[u] = 0
        /\ starts[t] = 1
        /\ task[t].status = "completed"

\* C37: for every task type the counter of _processing_counts equals the
\* number of process_task coroutines of that type between the increment and
\* the finally clause: it is never negative, it is 0 when none is there, and
\* it goes down by one in the very step in which such a coroutine ends,
\* whether the handler returned or raised or the write of the outcome raised
\* or found no record.
C37_CounterMatchesInFlight ==
    [][/\ \A T \in TaskTypes :
             /\ counts'[T] = InFlight(T)'
             /\ counts'[T] >= 0
       /\ \A t \in TaskIds :
             (wpc[t] \in Admitted /\ wpc'[t] \notin Admitted) =>
                /\ wpc'[t] = "none"
                /\ counts' = [counts EXCEPT ![ttype[t]] = @ - 1]]_vars

\* The failure write of a process_task is about to raise on a record it
\* cannot read (the handler has raised before), with the slot still counted.
C37_Witness ==
    \E t \in TaskIds :
        /\ wpc[t] = "F_get"
        /\ GetTask(task[t]) = "raise"
        /\ counts[ttype[t]] = 1
        /\ InFlight(ttype[t]) = 1

\* C38: no step of an update_task changes the store for a task whose record
\* is missing: while the key of an expired record is absent, no hash is
\* created under it and the id neither enters nor leaves the processing set.
C38_UpdateOnMissingIsNoOp ==
    [][\A t \in TaskIds :
          task[t].hash = "gone" =>
             /\ task'[t] = task[t]
             /\ t \in processing' <=> t \in processing]_vars

====
